---------------------------- MODULE Spec2Model ----------------------------
(***************************************************************************)
(* A model of ytclip (src/src/main.rs): time parsing, video-id extraction, *)
(* ffmpeg argument construction and the sequential process orchestration   *)
(* of download_clip / main.                                                *)
(*                                                                         *)
(* Representation choices                                                  *)
(*  - A Rust string that the code inspects character by character (time    *)
(*    strings, URLs, process output) is a sequence of one-character        *)
(*    strings.  A finished token (an ffmpeg argument, a file name) is a    *)
(*    TLA+ string obtained by concatenating the characters.                *)
(*  - An f64 holding a time is [nan, v]: NaN, or the integer v.  The time  *)
(*    inputs of the model are integer fields, on which f64 arithmetic is   *)
(*    exact.  -0.0 is identified with 0.0.                                 *)
(*  - An f64 holding a speed is [nan, m, k, r]: NaN, or the double          *)
(*        (m * 2^S + r) / (1000 * 2^(S+k))                                 *)
(*    the double nearest to the decimal m/1000 (r is its rounding          *)
(*    residual), divided k times by two.                                   *)
(***************************************************************************)
EXTENDS Integers, Sequences, FiniteSets, TLC

VARIABLES
    pc,            \* position of the run inside main / download_clip
    args,          \* struct Args: url, start_time, end_time, output, speed
    start_seconds, \* download_clip local
    end_seconds,   \* download_clip local
    duration,      \* download_clip local
    video_id,      \* download_clip local
    title,         \* download_clip local
    output_file,   \* download_clip local
    direct_url,    \* download_clip local
    ffmpeg_args,   \* download_clip local
    running,       \* external processes currently alive
    events,        \* history of process spawns/exits and builder calls
    console,       \* lines printed on stdout (tags only)
    result,        \* what main returned: "none", "ok" or the error message
    time_str,      \* input of the stand-alone parse_time check
    parsed,        \* its result
    cmd_in,        \* input of the stand-alone build_ffmpeg_command check
    cmd_out        \* its result

runVars == <<pc, args, start_seconds, end_seconds, duration, video_id, title,
             output_file, direct_url, ffmpeg_args, running, events, console, result>>
parseVars == <<time_str, parsed>>
buildVars == <<cmd_in, cmd_out>>
vars == <<runVars, parseVars, buildVars>>

-----------------------------------------------------------------------------
(* Bounds of the model *)

\* longest time string enumerated over Alphabet for the parse_time check
MaxLen == 4
\* largest speed (in thousandths) of the dense range handed to the
\* stand-alone builder check
MaxSpeedM == 4100

-----------------------------------------------------------------------------
(* Characters and strings *)

Digit == {"0", "1", "2", "3", "4", "5", "6", "7", "8", "9"}
DigitChars == <<"0", "1", "2", "3", "4", "5", "6", "7", "8", "9">>

DigitVal(c) == CHOOSE d \in 0..9 : DigitChars[d + 1] = c

RECURSIVE Text(_)
\* the TLA+ string made of the characters of s
Text(s) == IF s = <<>> THEN "" ELSE Head(s) \o Text(Tail(s))

RECURSIVE NatText(_)
\* decimal digits of a natural number
NatText(n) == IF n < 10 THEN DigitChars[n + 1]
              ELSE NatText(n \div 10) \o DigitChars[(n % 10) + 1]

RECURSIVE Replace(_, _, _)
\* str::replace(from, to) for a one-character pattern
Replace(s, from, to) ==
    IF s = <<>> THEN <<>>
    ELSE <<IF Head(s) = from THEN to ELSE Head(s)>> \o Replace(Tail(s), from, to)

-----------------------------------------------------------------------------
(* f64 values holding times *)

FNaN == [nan |-> TRUE, v |-> 0]
FNum(n) == [nan |-> FALSE, v |-> n]

FMulC(x, c) == IF x.nan THEN FNaN ELSE FNum(x.v * c)
FAdd(x, y) == IF x.nan \/ y.nan THEN FNaN ELSE FNum(x.v + y.v)
FSub(x, y) == IF x.nan \/ y.nan THEN FNaN ELSE FNum(x.v - y.v)
\* x <= y on f64: false as soon as one side is NaN
FLe(x, y) == ~x.nan /\ ~y.nan /\ x.v <= y.v

\* f64::to_string (Display): an integral double prints without a fraction
FToString(x) == IF x.nan THEN "NaN"
                ELSE IF x.v < 0 THEN "-" \o NatText(-x.v)
                ELSE NatText(x.v)

-----------------------------------------------------------------------------
(* Result<f64> *)

Ok(x) == [ok |-> TRUE, val |-> x, err |-> ""]
Err(e) == [ok |-> FALSE, val |-> FNaN, err |-> e]

-----------------------------------------------------------------------------
(* parse_time *)

IsDigits(s) == Len(s) > 0 /\ \A i \in 1..Len(s) : s[i] \in Digit

RECURSIVE DigitsVal(_)
DigitsVal(s) == IF s = <<>> THEN 0
                ELSE DigitsVal(SubSeq(s, 1, Len(s) - 1)) * 10 + DigitVal(s[Len(s)])

\* str::parse::<f64> on the inputs of the model: digit strings, a signed
\* digit string, and the literal NaN; anything else built from the model's
\* characters is rejected, as by Rust.
ParseF64(s) ==
    IF s = <<"N", "a", "N">> THEN Ok(FNaN)
    ELSE IF IsDigits(s) THEN Ok(FNum(DigitsVal(s)))
    ELSE IF Len(s) > 1 /\ s[1] = "-" /\ IsDigits(Tail(s))
         THEN Ok(FNum(0 - DigitsVal(Tail(s))))
    ELSE Err("parse")

\* index of the first ':' of s, 0 when there is none
FirstColon(s) == IF \E i \in 1..Len(s) : s[i] = ":"
                 THEN CHOOSE i \in 1..Len(s) :
                        s[i] = ":" /\ \A j \in 1..(i - 1) : s[j] # ":"
                 ELSE 0

RECURSIVE Split(_)
\* time_str.split(':').collect(): never empty, "" gives one empty field
Split(s) == IF FirstColon(s) = 0 THEN <<s>>
            ELSE <<SubSeq(s, 1, FirstColon(s) - 1)>>
                 \o Split(SubSeq(s, FirstColon(s) + 1, Len(s)))

\* parts[i].parse::<f64>().context(msg)
Component(field, msg) ==
    IF ParseF64(field).ok THEN ParseF64(field) ELSE Err(msg)

ParseOne(parts) == Component(parts[1], "Invalid seconds format")

ParseTwo(parts) ==
    LET minutes == Component(parts[1], "Invalid minutes format")
        seconds == Component(parts[2], "Invalid seconds format")
    IN  IF ~minutes.ok THEN minutes
        ELSE IF ~seconds.ok THEN seconds
        ELSE Ok(FAdd(FMulC(minutes.val, 60), seconds.val))

\* faulty variant: the hours are scaled like minutes
ParseThreeHoursAsMinutes(parts) ==
    LET hours   == Component(parts[1], "Invalid hours format")
        minutes == Component(parts[2], "Invalid minutes format")
        seconds == Component(parts[3], "Invalid seconds format")
    IN  IF ~hours.ok THEN hours
        ELSE IF ~minutes.ok THEN minutes
        ELSE IF ~seconds.ok THEN seconds
        ELSE Ok(FAdd(FAdd(FMulC(hours.val, 60), FMulC(minutes.val, 60)),
                     seconds.val))

ParseThree(parts) ==
    LET hours   == Component(parts[1], "Invalid hours format")
        minutes == Component(parts[2], "Invalid minutes format")
        seconds == Component(parts[3], "Invalid seconds format")
    IN  IF ~hours.ok THEN hours
        ELSE IF ~minutes.ok THEN minutes
        ELSE IF ~seconds.ok THEN seconds
        ELSE Ok(FAdd(FAdd(FMulC(hours.val, 3600), FMulC(minutes.val, 60)),
                     seconds.val))

\* faulty variant: fields after the third are ignored
parse_time_lenient(s) ==
    LET parts == Split(s)
    IN  CASE Len(parts) = 1 -> ParseOne(parts)
          [] Len(parts) = 2 -> ParseTwo(parts)
          [] OTHER -> ParseThree(parts)

parse_time(s) ==
    LET parts == Split(s)
    IN  CASE Len(parts) = 1 -> ParseOne(parts)
          [] Len(parts) = 2 -> ParseTwo(parts)
          [] Len(parts) = 3 -> ParseThree(parts)
          [] OTHER -> Err("Invalid time format")

-----------------------------------------------------------------------------
(* f64 values holding speeds *)

\* binary scale of the residual field r
S == 63

RECURSIVE Pow2(_)
Pow2(n) == IF n = 0 THEN 1 ELSE 2 * Pow2(n - 1)

RECURSIVE Pow2Mod1000(_)
Pow2Mod1000(n) == IF n = 0 THEN 1 ELSE (2 * Pow2Mod1000(n - 1)) % 1000

RECURSIVE Binade(_, _)
\* the e with 2^e <= num/den < 2^(e+1)
Binade(num, den) == IF num >= 2 * den THEN Binade(num, 2 * den) + 1
                    ELSE IF num < den THEN Binade(2 * num, den) - 1
                    ELSE 0

\* number of fraction bits of the doubles around m/1000 (53-bit significand)
FracBits(m) == 52 - Binade(m, 1000)

\* Rounding m/1000 to the nearest double: with p = FracBits(m), the double is
\* round(m * 2^p / 1000) / 2^p.  q is the remainder of m * 2^p by 1000; a tie
\* (q = 500) cannot occur because 8 divides 2^p and not 500.  The residual is
\* expressed in units of 1 / (1000 * 2^S).
Residual(m) ==
    LET p == FracBits(m)
        q == ((m % 1000) * Pow2Mod1000(p)) % 1000
    IN  (IF q < 500 THEN 0 - q ELSE 1000 - q) * Pow2(S - p)

DNaN == [nan |-> TRUE, m |-> 0, k |-> 0, r |-> 0]
\* str::parse::<f64> of the decimal m/1000 (m > 0)
DecOf(m) == [nan |-> FALSE, m |-> m, k |-> 0, r |-> Residual(m)]

\* sign of x - y for two non-NaN values; |r| is far below 2^S, so the
\* comparison is lexicographic on (m, r) once both are put on one scale
DCmp(x, y) ==
    LET a  == x.m * Pow2(y.k)
        b  == y.m * Pow2(x.k)
        ra == x.r * Pow2(y.k)
        rb == y.r * Pow2(x.k)
    IN  IF a # b THEN (IF a > b THEN 1 ELSE -1)
        ELSE IF ra # rb THEN (IF ra > rb THEN 1 ELSE -1)
        ELSE 0

DGt(x, y) == ~x.nan /\ ~y.nan /\ DCmp(x, y) = 1
DLt(x, y) == ~x.nan /\ ~y.nan /\ DCmp(x, y) = -1

\* x - y for two values on the same scale.  For x in [0.5, 2^53) and y = 1.0
\* the f64 subtraction is exact, so no rounding step is needed.
DSub(x, y) == IF x.nan \/ y.nan THEN DNaN
              ELSE [nan |-> FALSE, m |-> x.m - y.m, k |-> x.k, r |-> x.r - y.r]

\* f64::abs
DAbs(x) == IF x.nan THEN DNaN
           ELSE IF x.m < 0 \/ (x.m = 0 /\ x.r < 0)
                THEN [nan |-> FALSE, m |-> 0 - x.m, k |-> x.k, r |-> 0 - x.r]
           ELSE x

\* f64::min: a NaN operand is ignored
DMin(x, y) == IF x.nan THEN y ELSE IF y.nan THEN x
              ELSE IF DCmp(x, y) = 1 THEN y ELSE x

\* tempo /= 2.0: exact
DHalf(x) == IF x.nan THEN DNaN ELSE [x EXCEPT !.k = x.k + 1]

\* the literals of the source
Half == DecOf(500)
One == DecOf(1000)
Two == DecOf(2000)
Four == DecOf(4000)
Tolerance == DecOf(10)

\* the value of x rounded to hundredths as format!("{:.2}", x) rounds it
\* (x >= 0): the exact binary value, to nearest, ties to even.  A decimal tie
\* of the m part is decided by the sign of the residual.
Round2(x) ==
    LET u   == 10 * Pow2(x.k)
        q   == x.m \div u
        rem == x.m % u
        up  == \/ 2 * rem > u
               \/ 2 * rem = u /\ (x.r > 0 \/ (x.r = 0 /\ q % 2 = 1))
    IN  IF up THEN q + 1 ELSE q

\* the hundredths value of 1.0 / x rounded as format!("{:.2}", 1.0 / x)
\* rounds it (x.k = 0).  The quotient 1000/m lies on a decimal tie only for
\* m dividing 200000 with an odd quotient (m = 1600, 8000 in the modelled
\* range); there 1000/m is a dyadic number that the f64 division returns
\* exactly, and the tie goes to even.  Elsewhere the quotient is at least
\* 1/(2m) hundredths away from a tie, far more than the error of the division.
RoundRecip2(x) ==
    LET q   == 100000 \div x.m
        rem == 100000 % x.m
        up  == 2 * rem > x.m \/ (2 * rem = x.m /\ q % 2 = 1)
    IN  IF up THEN q + 1 ELSE q

\* two-decimal text of a number of hundredths
HundText(h) == NatText(h \div 100) \o "." \o NatText((h % 100) \div 10)
               \o NatText(h % 10)

\* format!("{:.2}", x)
Fmt2(x) == IF x.nan THEN "NaN" ELSE HundText(Round2(x))

RECURSIVE TrimZeros(_)
\* a fraction's digits without trailing zeros
TrimZeros(s) == IF s # <<>> /\ s[Len(s)] = "0"
                THEN TrimZeros(SubSeq(s, 1, Len(s) - 1)) ELSE s

\* format!("{}", speed) for a parsed decimal (x.k = 0): the shortest decimal
\* that reads back as the same double is the decimal itself
DToString(x) ==
    LET f == x.m % 1000
        digits == TrimZeros(<<DigitChars[(f \div 100) + 1],
                              DigitChars[((f % 100) \div 10) + 1],
                              DigitChars[(f % 10) + 1]>>)
    IN  IF x.nan THEN "NaN"
        ELSE IF digits = <<>> THEN NatText(x.m \div 1000)
        ELSE NatText(x.m \div 1000) \o "." \o Text(digits)

-----------------------------------------------------------------------------
(* build_ffmpeg_command *)

\* (speed - 1.0).abs() > 0.01
SpeedAdjusted(speed) == DGt(DAbs(DSub(speed, One)), Tolerance)

RECURSIVE AtempoChainInclusive(_)
\* faulty variant: the loop runs while tempo >= 2.0
AtempoChainInclusive(tempo) ==
    IF DGt(tempo, Two) \/ DCmp(tempo, Two) = 0
    THEN <<[fixed |-> TRUE, h |-> 200]>> \o AtempoChainInclusive(DHalf(tempo))
    ELSE IF DGt(tempo, One)
         THEN <<[fixed |-> FALSE, h |-> Round2(tempo)]>>
    ELSE <<>>

RECURSIVE AtempoChain(_)
\* the stages of the atempo chain for the remaining factor tempo: the while
\* loop pushes fixed "atempo=2.0" stages, the if pushes the closing stage.
\* A stage is [fixed, h]: h is its factor in hundredths.
AtempoChain(tempo) ==
    IF DGt(tempo, Two)
    THEN <<[fixed |-> TRUE, h |-> 200]>> \o AtempoChain(DHalf(tempo))
    ELSE IF DGt(tempo, One)
         THEN <<[fixed |-> FALSE, h |-> Round2(tempo)]>>
    ELSE <<>>

StageText(st) == IF st.fixed THEN "atempo=2.0" ELSE "atempo=" \o HundText(st.h)

RECURSIVE Join(_, _)
\* [String]::join(sep)
Join(ss, sep) == IF ss = <<>> THEN ""
                 ELSE IF Len(ss) = 1 THEN ss[1]
                 ELSE ss[1] \o sep \o Join(Tail(ss), sep)

ChainText(tempo) ==
    Join([i \in 1..Len(AtempoChain(tempo)) |-> StageText(AtempoChain(tempo)[i])], ",")

\* the arguments pushed by the speed block
SpeedFilters(speed) ==
    LET video_filter == "setpts=" \o HundText(RoundRecip2(speed)) \o "*PTS"
        audio_filter == "atempo=" \o Fmt2(DMin(speed, Two))
    IN  IF ~SpeedAdjusted(speed) THEN <<>>
        ELSE <<"-filter:v", video_filter>>
             \o (IF DGt(speed, Two)
                 THEN <<"-filter:a", ChainText(speed)>>
                 ELSE <<"-filter:a", audio_filter>>)

\* faulty variant: the overwrite flag comes first
EncodingOverwriteFirst ==
    <<"-y", "-c:v", "libx264", "-c:a", "aac", "-pix_fmt", "yuv420p",
      "-movflags", "faststart", "-preset", "fast", "-crf", "23">>

\* the QuickTime compatible encoding arguments
Encoding == <<"-c:v", "libx264", "-c:a", "aac", "-pix_fmt", "yuv420p",
              "-movflags", "faststart", "-preset", "fast", "-crf", "23", "-y">>

build_ffmpeg_command(url, start, dur, out, speed) ==
    <<"-ss", FToString(start), "-i", url, "-t", FToString(dur)>>
    \o SpeedFilters(speed)
    \o Encoding \o <<out>>

-----------------------------------------------------------------------------
(* extract_video_id *)

\* the class [a-zA-Z0-9_-]
IdChar ==
    {"a", "b", "c", "d", "e", "f", "g", "h", "i", "j", "k", "l", "m", "n",
     "o", "p", "q", "r", "s", "t", "u", "v", "w", "x", "y", "z", "A", "B",
     "C", "D", "E", "F", "G", "H", "I", "J", "K", "L", "M", "N", "O", "P",
     "Q", "R", "S", "T", "U", "V", "W", "X", "Y", "Z", "0", "1", "2", "3",
     "4", "5", "6", "7", "8", "9", "_", "-"}

\* {11}
IdLen == 11

WatchPrefix ==
    <<"y", "o", "u", "t", "u", "b", "e", ".", "c", "o", "m", "/", "w", "a",
      "t", "c", "h", "?", "v", "=">>
ShortPrefix ==
    <<"y", "o", "u", "t", "u", ".", "b", "e", "/">>
EmbedPrefix ==
    <<"y", "o", "u", "t", "u", "b", "e", ".", "c", "o", "m", "/", "e", "m",
      "b", "e", "d", "/">>

\* the alternatives of the non-capturing group, in order
Prefixes == <<WatchPrefix, ShortPrefix, EmbedPrefix>>

\* alternative p followed by the capture group matches url at position i
MatchAt(url, i, p) ==
    /\ i + Len(p) + IdLen - 1 <= Len(url)
    /\ SubSeq(url, i, i + Len(p) - 1) = p
    /\ \A j \in (i + Len(p))..(i + Len(p) + IdLen - 1) : url[j] \in IdChar

Matches(url) ==
    {<<i, n>> \in (1..Len(url)) \X (1..Len(Prefixes)) : MatchAt(url, i, Prefixes[n])}

\* re.captures(url): the leftmost match; capture group 1 is the identifier
extract_video_id(url) ==
    IF Matches(url) = {} THEN [some |-> FALSE, id |-> ""]
    ELSE LET mt == CHOOSE x \in Matches(url) :
                     \A y \in Matches(url) :
                        x[1] < y[1] \/ (x[1] = y[1] /\ x[2] <= y[2])
             from == mt[1] + Len(Prefixes[mt[2]])
         IN  [some |-> TRUE, id |-> Text(SubSeq(url, from, from + IdLen - 1))]

-----------------------------------------------------------------------------
(* get_video_title and the output file name *)

Whitespace == {" ", "\n", "\t"}
Unsafe == {"/", "\\", ":", "*", "?", "\"", "<", ">", "|"}

RECURSIVE TrimStart(_)
TrimStart(s) == IF s # <<>> /\ Head(s) \in Whitespace THEN TrimStart(Tail(s)) ELSE s

RECURSIVE TrimEnd(_)
TrimEnd(s) == IF s # <<>> /\ s[Len(s)] \in Whitespace
              THEN TrimEnd(SubSeq(s, 1, Len(s) - 1)) ELSE s

\* str::trim
Trim(s) == TrimEnd(TrimStart(s))

\* the map over chars: every unsafe character becomes '_'
Sanitize(s) == [i \in 1..Len(s) |-> IF s[i] \in Unsafe THEN "_" ELSE s[i]]

RECURSIVE Collapse(_)
\* split_whitespace().collect().join(" ") on a string
Collapse(s) ==
    LET t == TrimStart(s)
        n == IF \E i \in 1..Len(t) : t[i] \in Whitespace
             THEN (CHOOSE i \in 1..Len(t) :
                     t[i] \in Whitespace /\ \A j \in 1..(i - 1) : t[j] \notin Whitespace) - 1
             ELSE Len(t)
        rest == TrimStart(SubSeq(t, n + 1, Len(t)))
    IN  IF t = <<>> THEN <<>>
        ELSE IF rest = <<>> THEN SubSeq(t, 1, n)
        ELSE SubSeq(t, 1, n) \o <<" ">> \o Collapse(rest)

\* the title computed from the stdout of a successful yt-dlp --get-title
safe_title(stdout) == Text(Collapse(Sanitize(Trim(stdout))))

\* output_name.unwrap_or_else(...)
OutputFile(a, t) ==
    IF a.output.some THEN a.output.name
    ELSE IF SpeedAdjusted(a.speed)
         THEN t \o "_clip_" \o Text(Replace(a.start_time, ":", "-")) \o "-"
                \o Text(Replace(a.end_time, ":", "-")) \o "_"
                \o DToString(a.speed) \o "x.mp4"
    ELSE t \o "_clip_" \o Text(Replace(a.start_time, ":", "-")) \o "_"
           \o Text(Replace(a.end_time, ":", "-")) \o ".mp4"

-----------------------------------------------------------------------------
(* Inputs *)

Scheme ==
    <<"h", "t", "t", "p", "s", ":", "/", "/">>
VideoId ==
    <<"d", "Q", "w", "4", "w", "9", "W", "g", "X", "c", "Q">>
StreamOut ==
    <<"h", "t", "t", "p", ":", "/", "/", "c", "d", "n", "/", "v", "\n">>
StreamOutPadded ==
    <<" ", "h", "t", "t", "p", ":", "/", "/", "c", "d", "n", "/", "w", " ",
      "\n">>
TitleOut ==
    <<"M", "y", " ", " ", "C", "l", "i", "p", "\n">>
TitleOutUnsafe ==
    <<" ", "a", "/", "b", ":", " ", "c", "?", "\n">>

\* the URLs of tests::test_extract_video_id, an embed URL, a URL of another
\* site and a URL whose identifier is one character short
UrlSamples ==
    { Scheme \o <<"w", "w", "w", ".">> \o WatchPrefix \o VideoId,
      Scheme \o ShortPrefix \o VideoId,
      Scheme \o EmbedPrefix \o VideoId,
      Scheme \o <<"v", "i", "m", "e", "o", ".", "c", "o", "m", "/", "1">>,
      Scheme \o ShortPrefix \o SubSeq(VideoId, 1, IdLen - 1) }

\* time strings of the tests and of the documentation, and malformed ones
TimeSamples ==
    { <<"3", "0">>, <<"1", ":", "3", "0">>, <<"1", ":", "3", "0", ":", "4", "5">>,
      <<"9", "0">>, <<"7", "5", ":", "0", "0">>, <<"-", "1", ":", "3", "0">>,
      <<>>, <<"1", ":", "2", ":", "3", ":", "4">>, <<"a", ":", "3", "0">>,
      <<"N", "a", "N">> }

\* the time strings given to a run
RunTimes ==
    { <<"3", "0">>, <<"1", ":", "3", "0">>, <<"1", ":", "3", "0", ":", "4", "5">>,
      <<>>, <<"1", ":", "2", ":", "3", ":", "4">>, <<"a", ":", "3", "0">>,
      <<"N", "a", "N">> }

\* the characters of the enumerated time strings
Alphabet == {"1", "3", ":", "a", "N"}

TimeStrings == TimeSamples \cup UNION {[1..n -> Alphabet] : n \in 0..MaxLen}

\* --speed values given to a run, in thousandths, and NaN
RunSpeeds ==
    {DecOf(m) : m \in {490, 500, 990, 995, 1000, 1005, 1010, 1500, 2000, 2010,
                       3000, 4000, 4010}} \cup {DNaN}

\* speeds handed to the stand-alone builder check
BuildSpeeds ==
    {DecOf(m) : m \in 500..MaxSpeedM} \cup {DecOf(m) : m \in {6000, 8000, 9000}}
    \cup {DNaN}

NoOutput == [some |-> FALSE, name |-> ""]
Outputs == {NoOutput, [some |-> TRUE, name |-> "out.mp4"]}

ArgsSet == [url : UrlSamples, start_time : RunTimes, end_time : RunTimes,
            output : Outputs, speed : RunSpeeds]

BuildInputs == [url : {"http://cdn/v"}, start : {FNum(0), FNum(90), FNaN},
                dur : {FNum(30), FNaN}, out : {"out.mp4", "video_clip_30_90.mp4"},
                speed : BuildSpeeds]

-----------------------------------------------------------------------------
(* The run: main and download_clip *)

Ev(proc, what) == [proc |-> proc, what |-> what]

RunInit ==
    /\ pc = "main"
    /\ args \in ArgsSet
    /\ start_seconds = FNaN
    /\ end_seconds = FNaN
    /\ duration = FNaN
    /\ video_id = ""
    /\ title = ""
    /\ output_file = ""
    /\ direct_url = ""
    /\ ffmpeg_args = <<>>
    /\ running = {}
    /\ events = <<>>
    /\ console = <<>>
    /\ result = "none"

RunIdle ==
    /\ pc = "idle"
    /\ args = [url |-> <<>>, start_time |-> <<>>, end_time |-> <<>>,
               output |-> NoOutput, speed |-> DNaN]
    /\ start_seconds = FNaN
    /\ end_seconds = FNaN
    /\ duration = FNaN
    /\ video_id = ""
    /\ title = ""
    /\ output_file = ""
    /\ direct_url = ""
    /\ ffmpeg_args = <<>>
    /\ running = {}
    /\ events = <<>>
    /\ console = <<>>
    /\ result = "none"

ParseIdle == time_str = <<>> /\ parsed = [done |-> FALSE, res |-> Err("")]
BuildIdle == cmd_in = [url |-> "", start |-> FNaN, dur |-> FNaN, out |-> "",
                       speed |-> DNaN]
             /\ cmd_out = <<>>

\* faulty variant: the ends of the interval are rejected too
SpeedRejectedInclusive(speed) == ~DGt(speed, Half) \/ ~DLt(speed, Four)

\* args.speed < 0.5 || args.speed > 4.0
SpeedRejected(speed) == DLt(speed, Half) \/ DGt(speed, Four)

\* an error returned through `?` up to main
Fail(msg) ==
    /\ pc' = "exit"
    /\ result' = msg

\* main: the speed check, then the call of download_clip
ValidateSpeed ==
    /\ pc = "main"
    /\ IF SpeedRejected(args.speed)
       THEN Fail("Speed must be between 0.5 and 4.0")
       ELSE pc' = "parse_start" /\ result' = result
    /\ UNCHANGED <<args, start_seconds, end_seconds, duration, video_id, title,
                   output_file, direct_url, ffmpeg_args, running, events, console>>
    /\ UNCHANGED <<parseVars, buildVars>>

\* let start_seconds = parse_time(start_time)?
ParseStart ==
    /\ pc = "parse_start"
    /\ LET r == parse_time(args.start_time)
       IN  IF r.ok
           THEN start_seconds' = r.val /\ pc' = "parse_end" /\ result' = result
           ELSE Fail(r.err) /\ start_seconds' = start_seconds
    /\ UNCHANGED <<args, end_seconds, duration, video_id, title,
                   output_file, direct_url, ffmpeg_args, running, events, console>>
    /\ UNCHANGED <<parseVars, buildVars>>

\* let end_seconds = parse_time(end_time)?
ParseEnd ==
    /\ pc = "parse_end"
    /\ LET r == parse_time(args.end_time)
       IN  IF r.ok
           THEN end_seconds' = r.val /\ pc' = "check_range" /\ result' = result
           ELSE Fail(r.err) /\ end_seconds' = end_seconds
    /\ UNCHANGED <<args, start_seconds, duration, video_id, title,
                   output_file, direct_url, ffmpeg_args, running, events, console>>
    /\ UNCHANGED <<parseVars, buildVars>>

\* end_seconds <= start_seconds
RangeRejected(start, end) == FLe(end, start)

\* the clip range gate and the duration
CheckRange ==
    /\ pc = "check_range"
    /\ IF RangeRejected(start_seconds, end_seconds)
       THEN Fail("End time must be after start time") /\ duration' = duration
       ELSE /\ duration' = FSub(end_seconds, start_seconds)
            /\ pc' = "video_id"
            /\ result' = result
    /\ UNCHANGED <<args, start_seconds, end_seconds, video_id, title,
                   output_file, direct_url, ffmpeg_args, running, events, console>>
    /\ UNCHANGED <<parseVars, buildVars>>

\* the lines printed before the title is fetched
Banner(speed) ==
    <<"[INFO] Video ID", "[TIME] Clipping">>
    \o (IF SpeedAdjusted(speed) THEN <<"[SPEED] Speed">> ELSE <<>>)

\* extract_video_id(url).ok_or_else(...)? and the banner
ExtractVideoId ==
    /\ pc = "video_id"
    /\ LET id == extract_video_id(args.url)
       IN  IF id.some
           THEN /\ video_id' = id.id
                /\ console' = console \o Banner(args.speed)
                /\ pc' = "title"
                /\ result' = result
           ELSE /\ Fail("Could not extract video ID from URL")
                /\ UNCHANGED <<video_id, console>>
    /\ UNCHANGED <<args, start_seconds, end_seconds, duration, title,
                   output_file, direct_url, ffmpeg_args, running, events>>
    /\ UNCHANGED <<parseVars, buildVars>>

\* Result<String> of get_video_title for an outcome o of the yt-dlp process:
\* o.started (the process could be spawned), o.success (exit status),
\* o.stdout
get_video_title(o) ==
    IF ~o.started
    THEN [ok |-> FALSE, val |-> "", err |-> "Failed to execute yt-dlp. Is it installed?"]
    ELSE IF ~o.success THEN [ok |-> TRUE, val |-> "video", err |-> ""]
    ELSE [ok |-> TRUE, val |-> safe_title(o.stdout), err |-> ""]

\* faulty variant: the error of get_video_title is unwrapped to its empty value
TitleNoFallback(o) == get_video_title(o).val

\* get_video_title(url).unwrap_or_else(|_| "video".to_string())
TitleOrDefault(o) == IF get_video_title(o).ok THEN get_video_title(o).val ELSE "video"

TitleOuts == {TitleOut, TitleOutUnsafe}
StreamOuts == {StreamOut, StreamOutPadded}

\* the title fetch cannot be started: Command::output returns Err at once
TitleNotStarted ==
    /\ pc = "title"
    /\ LET o == [started |-> FALSE, success |-> FALSE, stdout |-> <<>>]
       IN  /\ title' = TitleOrDefault(o)
           /\ output_file' = OutputFile(args, TitleOrDefault(o))
    /\ console' = console \o <<"[INFO] Fetching video title...", "[INFO] Streaming clip...">>
    /\ events' = Append(events, Ev("title", "nostart"))
    /\ pc' = "resolve"
    /\ UNCHANGED <<args, start_seconds, end_seconds, duration, video_id,
                   direct_url, ffmpeg_args, running, result>>
    /\ UNCHANGED <<parseVars, buildVars>>

\* yt-dlp --get-title is spawned; output() blocks until it exits
TitleSpawn ==
    /\ pc = "title"
    /\ running' = running \cup {"title"}
    /\ console' = Append(console, "[INFO] Fetching video title...")
    /\ events' = Append(events, Ev("title", "spawn"))
    /\ pc' = "title_wait"
    /\ UNCHANGED <<args, start_seconds, end_seconds, duration, video_id, title,
                   output_file, direct_url, ffmpeg_args, result>>
    /\ UNCHANGED <<parseVars, buildVars>>

\* yt-dlp --get-title exits; the title and the output file name are fixed
TitleExit ==
    /\ pc = "title_wait"
    /\ \E success \in BOOLEAN, stdout \in TitleOuts :
         LET o == [started |-> TRUE, success |-> success, stdout |-> stdout]
         IN  /\ title' = TitleOrDefault(o)
             /\ output_file' = OutputFile(args, TitleOrDefault(o))
             /\ events' = Append(events, Ev("title", IF success THEN "exit_ok" ELSE "exit_fail"))
    /\ running' = running \ {"title"}
    /\ console' = Append(console, "[INFO] Streaming clip...")
    /\ pc' = "resolve"
    /\ UNCHANGED <<args, start_seconds, end_seconds, duration, video_id,
                   direct_url, ffmpeg_args, result>>
    /\ UNCHANGED <<parseVars, buildVars>>

\* yt-dlp --get-url cannot be started: .context(...)? returns the error
ResolverNotStarted ==
    /\ pc = "resolve"
    /\ events' = Append(events, Ev("resolver", "nostart"))
    /\ Fail("Failed to get video URL with yt-dlp")
    /\ UNCHANGED <<args, start_seconds, end_seconds, duration, video_id, title,
                   output_file, direct_url, ffmpeg_args, running, console>>
    /\ UNCHANGED <<parseVars, buildVars>>

\* yt-dlp --get-url is spawned; output() blocks until it exits
ResolverSpawn ==
    /\ pc = "resolve"
    /\ running' = running \cup {"resolver"}
    /\ events' = Append(events, Ev("resolver", "spawn"))
    /\ pc' = "resolve_wait"
    /\ UNCHANGED <<args, start_seconds, end_seconds, duration, video_id, title,
                   output_file, direct_url, ffmpeg_args, console, result>>
    /\ UNCHANGED <<parseVars, buildVars>>

\* faulty variant: the exit status of the resolver is not looked at
ResolverAcceptedAlways(success) == TRUE

\* !direct_url_output.status.success() returns the error
ResolverAccepted(success) == success

\* yt-dlp --get-url exits; on success the ffmpeg arguments are built
ResolverExit ==
    /\ pc = "resolve_wait"
    /\ running' = running \ {"resolver"}
    /\ \E success \in BOOLEAN, stdout \in StreamOuts :
         IF ResolverAccepted(success)
         THEN /\ direct_url' = Text(Trim(stdout))
              /\ ffmpeg_args' = build_ffmpeg_command(Text(Trim(stdout)), start_seconds,
                                                     duration, output_file, args.speed)
              /\ events' = events \o <<Ev("resolver", IF success THEN "exit_ok" ELSE "exit_fail"),
                                       Ev("builder", "call")>>
              /\ pc' = "transcode"
              /\ result' = result
         ELSE /\ events' = Append(events, Ev("resolver", "exit_fail"))
              /\ Fail("Failed to extract video URL")
              /\ UNCHANGED <<direct_url, ffmpeg_args>>
    /\ UNCHANGED <<args, start_seconds, end_seconds, duration, video_id, title,
                   output_file, console>>
    /\ UNCHANGED <<parseVars, buildVars>>

\* ffmpeg cannot be started: .context(...)? returns the error
TranscoderNotStarted ==
    /\ pc = "transcode"
    /\ events' = Append(events, Ev("transcoder", "nostart"))
    /\ Fail("Failed to execute ffmpeg. Is it installed?")
    /\ UNCHANGED <<args, start_seconds, end_seconds, duration, video_id, title,
                   output_file, direct_url, ffmpeg_args, running, console>>
    /\ UNCHANGED <<parseVars, buildVars>>

\* ffmpeg is spawned with ffmpeg_args; status() blocks until it exits
TranscoderSpawn ==
    /\ pc = "transcode"
    /\ running' = running \cup {"transcoder"}
    /\ events' = Append(events, Ev("transcoder", "spawn"))
    /\ pc' = "transcode_wait"
    /\ UNCHANGED <<args, start_seconds, end_seconds, duration, video_id, title,
                   output_file, direct_url, ffmpeg_args, console, result>>
    /\ UNCHANGED <<parseVars, buildVars>>

\* faulty variant: the exit status of ffmpeg is not looked at
TranscoderAcceptedAlways(success) == TRUE

\* !status.success() returns the error
TranscoderAccepted(success) == success

\* ffmpeg exits; on success the clip is reported and Ok(()) returned
TranscoderExit ==
    /\ pc = "transcode_wait"
    /\ running' = running \ {"transcoder"}
    /\ \E success \in BOOLEAN :
         /\ events' = Append(events, Ev("transcoder", IF success THEN "exit_ok" ELSE "exit_fail"))
         /\ IF TranscoderAccepted(success)
            THEN /\ console' = Append(console, "[SUCCESS] Clip saved as: " \o output_file)
                 /\ pc' = "exit"
                 /\ result' = "ok"
            ELSE /\ Fail("FFmpeg failed to process the video")
                 /\ console' = console
    /\ UNCHANGED <<args, start_seconds, end_seconds, duration, video_id, title,
                   output_file, direct_url, ffmpeg_args>>
    /\ UNCHANGED <<parseVars, buildVars>>

Init == RunInit /\ ParseIdle /\ BuildIdle

Next ==
    \/ ValidateSpeed
    \/ ParseStart
    \/ ParseEnd
    \/ CheckRange
    \/ ExtractVideoId
    \/ TitleNotStarted
    \/ TitleSpawn
    \/ TitleExit
    \/ ResolverNotStarted
    \/ ResolverSpawn
    \/ ResolverExit
    \/ TranscoderNotStarted
    \/ TranscoderSpawn
    \/ TranscoderExit

\* a run of main on every argument vector of ArgsSet
Spec == Init /\ [][Next]_vars

-----------------------------------------------------------------------------
(* parse_time on its own *)

InitParse ==
    /\ RunIdle /\ BuildIdle
    /\ time_str \in TimeStrings
    /\ parsed = [done |-> FALSE, res |-> Err("")]

ParseTime ==
    /\ ~parsed.done
    /\ parsed' = [done |-> TRUE, res |-> parse_time(time_str)]
    /\ UNCHANGED <<time_str, runVars, buildVars>>

NextParse == ParseTime

SpecParse == InitParse /\ [][NextParse]_vars

-----------------------------------------------------------------------------
(* build_ffmpeg_command on its own *)

InitBuild ==
    /\ RunIdle /\ ParseIdle
    /\ cmd_in \in BuildInputs
    /\ cmd_out = <<>>

BuildCommand ==
    /\ cmd_out = <<>>
    /\ cmd_out' = build_ffmpeg_command(cmd_in.url, cmd_in.start, cmd_in.dur,
                                       cmd_in.out, cmd_in.speed)
    /\ UNCHANGED <<cmd_in, runVars, parseVars>>

NextBuild == BuildCommand

SpecBuild == InitBuild /\ [][NextBuild]_vars

-----------------------------------------------------------------------------
(* Properties of the run *)

EventAt(e) == {i \in 1..Len(events) : events[i] = e}
Happened(e) == EventAt(e) # {}
\* the attempts to start process p, successful or not
Invocations(p) ==
    {i \in 1..Len(events) : events[i].proc = p /\ events[i].what \in {"spawn", "nostart"}}
LastEvent == events[Len(events)]

SpeedMsg == "Speed must be between 0.5 and 4.0"
RangeMsg == "End time must be after start time"
SuccessLine == "[SUCCESS] Clip saved as: " \o output_file
Reported == \E i \in 1..Len(console) : console[i] = SuccessLine
Failed == pc = "exit" /\ result \notin {"ok", "none"}

ResolverFailed == Happened(Ev("resolver", "nostart")) \/ Happened(Ev("resolver", "exit_fail"))
TranscoderFailed ==
    Happened(Ev("transcoder", "nostart")) \/ Happened(Ev("transcoder", "exit_fail"))

\* C1: the transcoder is invoked only after the resolver has exited
\* successfully, the two are never alive together, and a resolver that cannot
\* be started or exits non-zero ends the run in failure with no transcoder
\* invocation.
C1_ResolverThenTranscoder ==
    /\ ~({"resolver", "transcoder"} \subseteq running)
    /\ \A i \in Invocations("transcoder") :
         /\ \E j \in 1..(i - 1) : events[j] = Ev("resolver", "exit_ok")
         /\ "resolver" \notin running
    /\ ResolverFailed => Failed /\ Invocations("transcoder") = {} /\ ffmpeg_args = <<>>

C1_Witness ==
    /\ "transcoder" \in running
    /\ Happened(Ev("resolver", "exit_ok"))

\* C2 (as claimed): when both times parse and end <= start the run ends with
\* the range error and nothing downstream happens; and whenever the builder
\* has been called the duration equals end - start, is strictly positive and
\* is carried by exactly one "-t" directive.
C2_RangeGate ==
    LET st == parse_time(args.start_time)
        en == parse_time(args.end_time)
    IN  /\ (st.ok /\ en.ok /\ ~st.val.nan /\ ~en.val.nan /\ en.val.v <= st.val.v)
             => /\ events = <<>> /\ ffmpeg_args = <<>> /\ running = {}
                /\ pc = "exit" => result \in {SpeedMsg, RangeMsg}
                /\ pc \in {"main", "parse_start", "parse_end", "check_range", "exit"}
        /\ Happened(Ev("builder", "call"))
             => /\ duration = FSub(end_seconds, start_seconds)
                /\ ~duration.nan /\ duration.v > 0
                /\ {i \in 1..Len(ffmpeg_args) : ffmpeg_args[i] = "-t"} = {5}
                /\ ffmpeg_args[6] = NatText(en.val.v - st.val.v)

\* C3: a URL mismatch, a resolver failure or a transcoder failure is terminal:
\* nothing is invoked afterwards, the run ends in an error, the resolver and
\* the transcoder are each invoked at most once, and the success line is
\* printed only after the transcoder exited successfully.
C3_FailuresTerminal ==
    /\ Cardinality(Invocations("resolver")) <= 1
    /\ Cardinality(Invocations("transcoder")) <= 1
    /\ ~extract_video_id(args.url).some
         => events = <<>> /\ running = {} /\ (pc = "exit" => Failed)
    /\ (ResolverFailed \/ TranscoderFailed)
         => /\ Failed /\ running = {}
            /\ LastEvent.what \in {"nostart", "exit_fail"}
            /\ ~Reported
    /\ Reported <=> (pc = "exit" /\ result = "ok")
    /\ Reported => LastEvent = Ev("transcoder", "exit_ok")

C3_Witness ==
    /\ Happened(Ev("transcoder", "exit_fail"))
    /\ result = "FFmpeg failed to process the video"

TitleFailed == Happened(Ev("title", "nostart")) \/ Happened(Ev("title", "exit_fail"))

C5_SpeedBoundary ==
    /\ (~args.speed.nan /\ (args.speed.m < 500 \/ args.speed.m > 4000))
         => /\ pc \in {"main", "exit"}
            /\ pc = "exit" => result = SpeedMsg
            /\ start_seconds = FNaN /\ end_seconds = FNaN
            /\ events = <<>> /\ ffmpeg_args = <<>> /\ console = <<>>
    /\ (~args.speed.nan /\ args.speed.m >= 500 /\ args.speed.m <= 4000)
         => /\ result # SpeedMsg
            /\ pc = "exit" => result \in {"ok", "Invalid seconds format",
                    "Invalid minutes format", "Invalid hours format",
                    "Invalid time format", RangeMsg,
                    "Could not extract video ID from URL",
                    "Failed to get video URL with yt-dlp",
                    "Failed to extract video URL",
                    "Failed to execute ffmpeg. Is it installed?",
                    "FFmpeg failed to process the video"}

C5_Witness ==
    /\ args.speed = DecOf(4010)
    /\ pc = "exit"
    /\ result = SpeedMsg

-----------------------------------------------------------------------------
(* Properties of parse_time *)

Colons(s) == Cardinality({i \in 1..Len(s) : s[i] = ":"})

\* C6 (as claimed): the empty string and every string of more than three
\* fields fail with the field-count error "Invalid time format".
C6_InvalidFormat ==
    parsed.done /\ (time_str = <<>> \/ Colons(time_str) >= 3)
        => ~parsed.res.ok /\ parsed.res.err = "Invalid time format"

\* C6 (amended): parse_time fails with the field-count error exactly when the
\* string has more than three colon-separated fields; the empty string is one
\* empty field and fails with the seconds component error.
C6_InvalidFormatAmended ==
    parsed.done
        => /\ Colons(time_str) >= 3
                <=> (~parsed.res.ok /\ parsed.res.err = "Invalid time format")
           /\ time_str = <<>>
                => ~parsed.res.ok /\ parsed.res.err = "Invalid seconds format"

C6_Witness ==
    /\ parsed.done
    /\ time_str = <<"1", ":", "2", ":", "3", ":", "4">>
    /\ parsed.res.err = "Invalid time format"

\* the field of s between its (n-1)-th and n-th colon
RECURSIVE FieldOf(_, _)
FieldOf(s, n) ==
    LET c == IF \E i \in 1..Len(s) : s[i] = ":"
             THEN CHOOSE i \in 1..Len(s) : s[i] = ":" /\ \A j \in 1..(i - 1) : s[j] # ":"
             ELSE Len(s) + 1
    IN  IF n = 1 THEN SubSeq(s, 1, c - 1) ELSE FieldOf(SubSeq(s, c + 1, Len(s)), n - 1)

Numeric(f) == IsDigits(f) \/ (Len(f) > 1 /\ f[1] = "-" /\ IsDigits(Tail(f)))
NumberOf(f) == IF f[1] = "-" THEN 0 - DigitsVal(Tail(f)) ELSE DigitsVal(f)

\* C7: when every field is numeric, one field is the seconds, two fields are
\* minutes*60 + seconds, three fields are hours*3600 + minutes*60 + seconds,
\* with no bound on a field; "30" is 30, "1:30" is 90, "1:30:45" is 5445.
C7_Additive ==
    parsed.done =>
      LET n == Colons(time_str) + 1
          f(i) == FieldOf(time_str, i)
      IN  /\ (n = 1 /\ Numeric(f(1)))
               => parsed.res = Ok(FNum(NumberOf(f(1))))
          /\ (n = 2 /\ Numeric(f(1)) /\ Numeric(f(2)))
               => parsed.res = Ok(FNum(NumberOf(f(1)) * 60 + NumberOf(f(2))))
          /\ (n = 3 /\ Numeric(f(1)) /\ Numeric(f(2)) /\ Numeric(f(3)))
               => parsed.res = Ok(FNum(NumberOf(f(1)) * 3600 + NumberOf(f(2)) * 60
                                       + NumberOf(f(3))))
          /\ time_str = <<"3", "0">> => parsed.res = Ok(FNum(30))
          /\ time_str = <<"1", ":", "3", "0">> => parsed.res = Ok(FNum(90))
          /\ time_str = <<"1", ":", "3", "0", ":", "4", "5">> => parsed.res = Ok(FNum(5445))
          /\ time_str = <<"9", "0">> => parsed.res = Ok(FNum(90))
          /\ time_str = <<"7", "5", ":", "0", "0">> => parsed.res = Ok(FNum(4500))

C7_Witness ==
    /\ parsed.done
    /\ time_str = <<"1", ":", "3", "0", ":", "4", "5">>
    /\ parsed.res = Ok(FNum(5445))

-----------------------------------------------------------------------------
(* Properties of build_ffmpeg_command *)

Built == cmd_out # <<>>
\* the requested speed in thousandths
SpeedM == cmd_in.speed.m
TokensAt(t) == {i \in 1..Len(cmd_out) : cmd_out[i] = t}
Abs(n) == IF n < 0 THEN 0 - n ELSE n

\* C8 (as claimed): for a speed in (2.0, 4.0] the audio filter is a chain of
\* stages each <= 2.0 whose product is the speed up to the two-decimal
\* formatting; speed 3.0 gives the stages 2.0, 1.50 and speed 4.0 gives
\* exactly the stages 2.0, 2.0.
C8_Chain ==
    (Built /\ ~cmd_in.speed.nan /\ SpeedM > 2000 /\ SpeedM <= 4000)
        => /\ cmd_out[9] = "-filter:a"
           /\ \E h \in 100..200 :
                /\ cmd_out[10] \in {"atempo=2.0,atempo=" \o HundText(h), "atempo=2.0,atempo=2.0"}
                /\ Abs(20 * h - SpeedM) <= 10
           /\ SpeedM = 3000 => cmd_out[10] = "atempo=2.0,atempo=1.50"
           /\ SpeedM = 4000 => cmd_out[10] = "atempo=2.0,atempo=2.0"

\* C8 (amended): as claimed, except that the closing stage is always written
\* with two decimals: speed 4.0 gives the stages 2.0, 2.00.
C8_ChainAmended ==
    (Built /\ ~cmd_in.speed.nan /\ SpeedM > 2000 /\ SpeedM <= 4000)
        => /\ cmd_out[9] = "-filter:a"
           /\ TokensAt("-filter:a") = {9}
           /\ \E h \in 100..200 :
                /\ cmd_out[10] = "atempo=2.0,atempo=" \o HundText(h)
                /\ Abs(20 * h - SpeedM) <= 10
           /\ SpeedM = 3000 => cmd_out[10] = "atempo=2.0,atempo=1.50"
           /\ SpeedM = 4000 => cmd_out[10] = "atempo=2.0,atempo=2.00"

C8_Witness ==
    /\ Built
    /\ cmd_in.speed = DecOf(4000)
    /\ cmd_out[10] = "atempo=2.0,atempo=2.00"

\* C9 (as claimed): for a speed in [0.99, 1.01], ends included, no filter
\* token is emitted; for any other speed in [0.5, 4.0] exactly one
\* "-filter:v" directive is immediately followed by exactly one "-filter:a"
\* directive, and for a speed <= 2.0 the audio directive is one tempo stage
\* whose factor is the speed (0.5 gives setpts 2.00 and atempo 0.50).
C9_ToleranceBand ==
    (Built /\ ~cmd_in.speed.nan /\ SpeedM >= 500 /\ SpeedM <= 4000)
        => IF SpeedM >= 990 /\ SpeedM <= 1010
           THEN TokensAt("-filter:v") = {} /\ TokensAt("-filter:a") = {}
           ELSE /\ TokensAt("-filter:v") = {7} /\ TokensAt("-filter:a") = {9}
                /\ SpeedM <= 2000 =>
                     \E h \in 50..200 : /\ cmd_out[10] = "atempo=" \o HundText(h)
                                        /\ Abs(10 * h - SpeedM) <= 5
                /\ SpeedM = 500 => /\ cmd_out[8] = "setpts=2.00*PTS"
                                   /\ cmd_out[10] = "atempo=0.50"

\* the fixed frame of every argument list
FrameHead(i) ==
    <<"-ss", IF i.start.nan THEN "NaN" ELSE NatText(i.start.v), "-i", i.url,
      "-t", IF i.dur.nan THEN "NaN" ELSE NatText(i.dur.v)>>
FrameTail(i) ==
    <<"-c:v", "libx264", "-c:a", "aac", "-pix_fmt", "yuv420p", "-movflags",
      "faststart", "-preset", "fast", "-crf", "23", "-y", i.out>>

\* C10: every argument list begins with -ss start, -i locator, -t duration
\* and ends with the fixed encoding arguments in constant order followed by
\* the output path; between them lies nothing or the filter block.
C10_Frame ==
    Built =>
      LET n == Len(cmd_out)
      IN  /\ n \in {20, 24}
          /\ SubSeq(cmd_out, 1, 6) = FrameHead(cmd_in)
          /\ SubSeq(cmd_out, n - 13, n) = FrameTail(cmd_in)
          /\ cmd_out[n] = cmd_in.out
          /\ n = 24 => cmd_out[7] = "-filter:v" /\ cmd_out[9] = "-filter:a"

C10_Witness ==
    /\ Built
    /\ Len(cmd_out) = 24
    /\ cmd_in.speed = DecOf(3000)

=============================================================================
